---- MODULE Spec2Model ----
(***************************************************************************)
(* Redo policies of the Azure IoT device SDK:                              *)
(*   common/exponential_backoff.py  ExponentialBackoffWithJitter,          *)
(*                                  DefaultExponentialBackoff              *)
(*   common/pipeline/config.py      BasePipelineConfig                     *)
(*                                                                         *)
(* Numbers.  Intervals (backoff_interval, minimum_interval_between_redos,  *)
(* maximum_interval_between_redos) are counted in tenths of a second.      *)
(* Jitter factors and the draw of random.uniform are counted in quarters,  *)
(* so the literal 1 of "1 - self.jitter_down_factor" is One = 4.  A value  *)
(* returned by get_next_redo_interval is counted in 1/One of an interval   *)
(* unit, which keeps the product backoff_interval * draw exact.            *)
(*                                                                         *)
(* Values.  None is the string "None".  Any other op or error is an        *)
(* instance, represented by the name of its class: ops and errors are      *)
(* plain objects (no __bool__, no __len__), so an instance is truthy.      *)
(* redo_op_list and redo_error_list are only ever read with "in", so a     *)
(* list is represented by the set of its elements.                         *)
(***************************************************************************)
EXTENDS Integers, Sequences, FiniteSets, TLC

VARIABLES policy, call, pipeline_config, task

vars == <<policy, call, pipeline_config, task>>

----------------------------------------------------------------------------
(* Bounds of the model *)

\* redo_count ranges over 1..MaxRedoCount, and the first count that overflows
MaxRedoCount == 3
\* interval fields range over -1..MaxInterval (backoff_interval over 0..MaxInterval)
MaxInterval == 2
\* number of tasks calling into one shared policy instance
NumTasks == 2

----------------------------------------------------------------------------
(* Python values *)

None == "None"

\* the literal 1 of line 57, in quarters
One == 4

\* sys.float_info.max_exp: converting an int >= 2^1024 - 2^970 to float raises
\* OverflowError; (pow(2, n) - 1) * <float> converts pow(2, n) - 1, which is
\* below that threshold exactly when n < FloatMaxExp.
FloatMaxExp == 1024

\* builtin min(a, b): b when b < a, else a
Min(a, b) == IF b < a THEN b ELSE a

\* the larger of a and b
Max(a, b) == IF a < b THEN b ELSE a

\* the None guard left out: "if type(op) not in self.redo_op_list"
Truthy_GuardLeftOut(x) == TRUE

\* truthiness, as in "if op and ..."
Truthy(x) == x # None

\* type(x): an instance is represented by the name of its class
TypeOf(x) == x

\* config.py: the error classes the two module-level lists name
reconnect_errors == {"ConnectionFailedError", "ConnectionDroppedError"}

retry_errors == {"PipelineTimeoutError"}

\* The classes an error argument may be an instance of: the listed ones and a
\* strict subclass of a listed one.
ErrorClasses == reconnect_errors \cup retry_errors \cup {"DerivedConnectionDroppedError"}

\* The classes an op argument may be an instance of: the operation base class
\* and a strict subclass of it.
OpClasses == {"PipelineOperation", "DerivedOperation"}

\* direct base class of a class ("object" for the roots)
BaseOf(c) ==
    CASE c = "DerivedConnectionDroppedError" -> "ConnectionDroppedError"
      [] c = "DerivedOperation" -> "PipelineOperation"
      [] OTHER -> "object"

\* issubclass(c, k) over the hierarchy above (depth at most 1)
IsSubclass(c, k) == c = k \/ BaseOf(c) = k

IsStrictSubclass(c, k) == c # k /\ IsSubclass(c, k)

----------------------------------------------------------------------------
(* ExponentialBackoffWithJitter *)

\* the instance before __init__ has run
NoPolicy ==
    [cls |-> None, redo_op_list |-> {}, redo_error_list |-> {},
     immediate_first_redo |-> FALSE, backoff_interval |-> 0,
     minimum_interval_between_redos |-> 0, maximum_interval_between_redos |-> 0,
     jitter_up_factor |-> 0, jitter_down_factor |-> 0, raised |-> None]

\* __init__ stores its eight arguments and checks none of them
ExponentialBackoffWithJitter_init(cls, redo_op_list, redo_error_list, immediate_first_redo, backoff_interval, minimum_interval_between_redos, maximum_interval_between_redos, jitter_up_factor, jitter_down_factor) ==
    [cls |-> cls,
     redo_error_list |-> redo_error_list,
     redo_op_list |-> redo_op_list,
     immediate_first_redo |-> immediate_first_redo,
     backoff_interval |-> backoff_interval,
     minimum_interval_between_redos |-> minimum_interval_between_redos,
     maximum_interval_between_redos |-> maximum_interval_between_redos,
     jitter_up_factor |-> jitter_up_factor,
     jitter_down_factor |-> jitter_down_factor,
     raised |-> None]

\* DefaultExponentialBackoff.__init__(self, redo_op_list, redo_error_list), called
\* with the positional arguments args: both are required, so any other number of
\* arguments raises TypeError before the body runs.  The preset is 0.1 s, 0.1 s,
\* 10 s, 0.25, 0.5.
DefaultExponentialBackoff(args) ==
    IF Len(args) # 2
    THEN [NoPolicy EXCEPT !.raised = "TypeError"]
    ELSE ExponentialBackoffWithJitter_init("DefaultExponentialBackoff", args[1], args[2],
                                           TRUE, 1, 1, 100, 1, 2)

\* random.uniform(a, b): any value between a and b, whichever is the larger
uniform(a, b) == Min(a, b)..Max(a, b)

\* the draws random.uniform can return at lines 56-58
JitterDraws(self) == uniform(One - self.jitter_down_factor, One + self.jitter_up_factor)

Returns(v) == [raised |-> None, value |-> v]

Raises(e) == [raised |-> e, value |-> 0]

\* lines 56-58: random_jitter, for the draw u
random_jitter(self, u) == self.backoff_interval * u

\* the exponent counted from zero: pow(2, redo_count) - 1
pow_term_FromZero(redo_count) == 2 ^ redo_count - 1

\* line 60: pow(2, redo_count - 1) - 1
pow_term(redo_count) == 2 ^ (redo_count - 1) - 1

\* lines 59-62, for random_jitter rj (scaled by One)
clamped_interval(self, redo_count, rj) ==
    IF redo_count - 1 >= FloatMaxExp
    THEN Raises("OverflowError")
    ELSE Returns(Min(self.minimum_interval_between_redos * One + pow_term(redo_count) * rj,
                     self.maximum_interval_between_redos * One))

\* line 53
is_immediate(self, redo_count) == self.immediate_first_redo /\ redo_count = 1

\* get_next_redo_interval(self, redo_count), for the draw u of random.uniform
get_next_redo_interval(self, redo_count, u) ==
    IF is_immediate(self, redo_count)
    THEN Returns(0)
    ELSE clamped_interval(self, redo_count, random_jitter(self, u))

\* the membership test written with isinstance: any(isinstance(x, k) for k in lst)
type_in_IsInstance(x, lst) == \E k \in lst : IsSubclass(TypeOf(x), k)

\* "type(x) not in lst" is false: membership of the exact class
type_in(x, lst) == TypeOf(x) \in lst

\* the op filter left out, as for a policy that filters on the error alone
op_rejected_Ignored(self, op) == FALSE

\* line 66
op_rejected(self, op) == Truthy(op) /\ ~type_in(op, self.redo_op_list)

\* an empty redo_error_list taken to mean "every error"
error_rejected_UnlessEmpty(self, error) ==
    Truthy(error) /\ self.redo_error_list # {} /\ ~type_in(error, self.redo_error_list)

\* line 68
error_rejected(self, error) == Truthy(error) /\ ~type_in(error, self.redo_error_list)

\* should_redo(self, op, error, redo_count)
should_redo(self, op, error, redo_count) ==
    IF op_rejected(self, op) THEN FALSE
    ELSE IF error_rejected(self, error) THEN FALSE
    ELSE TRUE

----------------------------------------------------------------------------
(* BasePipelineConfig *)

NoConfig ==
    [state |-> "unloaded", websockets |-> FALSE,
     retry_policy |-> NoPolicy, reconnect_policy |-> NoPolicy]

\* config.py line 31: the default of retry_policy, evaluated when the def runs
retry_policy_default == DefaultExponentialBackoff(<<retry_errors>>)

\* config.py line 32: the default of reconnect_policy
reconnect_policy_default == DefaultExponentialBackoff(<<reconnect_errors>>)

\* BasePipelineConfig.__init__ body (lines 38-40)
BasePipelineConfig_init(websockets, retry_policy, reconnect_policy) ==
    [state |-> "constructed", websockets |-> websockets,
     retry_policy |-> retry_policy, reconnect_policy |-> reconnect_policy]

\* BasePipelineConfig(websockets=...) with no policy overrides: the class body
\* runs first and evaluates both defaults; an exception there leaves no class.
BasePipelineConfig(websockets) ==
    IF retry_policy_default.raised # None
    THEN [NoConfig EXCEPT !.state = retry_policy_default.raised]
    ELSE IF reconnect_policy_default.raised # None
    THEN [NoConfig EXCEPT !.state = reconnect_policy_default.raised]
    ELSE BasePipelineConfig_init(websockets, retry_policy_default, reconnect_policy_default)

----------------------------------------------------------------------------
(* Inputs *)

RedoCounts == (1..MaxRedoCount) \cup {FloatMaxExp + 1}

OpLists == {{}, {"PipelineOperation"}}

ErrorLists == {{}, retry_errors, reconnect_errors}

Intervals == (-1)..MaxInterval

BackoffIntervals == 0..MaxInterval

JitterUpFactors == {0, 1}

JitterDownFactors == {2, One}

OpValues == {None} \cup OpClasses

ErrorValues == {None} \cup ErrorClasses

NoCall ==
    [method |-> None, op |-> None, error |-> None, redo_count |-> 0, draw |-> 0,
     raised |-> None, redo |-> FALSE, interval |-> 0]

Constructed(p) == p.cls # None

Tasks == 1..NumTasks

\* a task that is not inside a call of the policy
IdleTask ==
    [pc |-> "idle", method |-> None, op |-> None, error |-> None, redo_count |-> 0,
     draw |-> 0, rj |-> 0, raised |-> None, redo |-> FALSE, interval |-> 0]

----------------------------------------------------------------------------
(* One policy instance, called by one caller *)

Init ==
    /\ policy = NoPolicy
    /\ call = NoCall
    /\ pipeline_config = NoConfig
    /\ task = [t \in Tasks |-> IdleTask]

\* ExponentialBackoffWithJitter(...)
NewExponentialBackoffWithJitter ==
    /\ policy = NoPolicy
    /\ \E ops \in OpLists, errs \in ErrorLists, imm \in BOOLEAN,
          c \in BackoffIntervals, cmin \in Intervals, cmax \in Intervals,
          ju \in JitterUpFactors, jd \in JitterDownFactors :
          policy' = ExponentialBackoffWithJitter_init("ExponentialBackoffWithJitter",
                        ops, errs, imm, c, cmin, cmax, ju, jd)
    /\ UNCHANGED <<call, pipeline_config, task>>

\* DefaultExponentialBackoff(redo_op_list, redo_error_list)
NewDefaultExponentialBackoff ==
    /\ policy = NoPolicy
    /\ \E ops \in OpLists, errs \in ErrorLists :
          policy' = DefaultExponentialBackoff(<<ops, errs>>)
    /\ UNCHANGED <<call, pipeline_config, task>>

\* policy.get_next_redo_interval(redo_count)
CallGetNextRedoInterval ==
    /\ Constructed(policy)
    /\ call = NoCall
    /\ \E n \in RedoCounts :
          \E u \in (IF is_immediate(policy, n) THEN {0} ELSE JitterDraws(policy)) :
             LET r == get_next_redo_interval(policy, n, u)
             IN call' = [NoCall EXCEPT !.method = "get_next_redo_interval",
                                       !.redo_count = n, !.draw = u,
                                       !.raised = r.raised, !.interval = r.value]
    /\ UNCHANGED <<policy, pipeline_config, task>>

\* policy.should_redo(op, error, redo_count)
CallShouldRedo ==
    /\ Constructed(policy)
    /\ call = NoCall
    /\ \E op \in OpValues, error \in ErrorValues, n \in RedoCounts :
          call' = [NoCall EXCEPT !.method = "should_redo", !.op = op, !.error = error,
                                 !.redo_count = n,
                                 !.redo = should_redo(policy, op, error, n)]
    /\ UNCHANGED <<policy, pipeline_config, task>>

\* BasePipelineConfig() / BasePipelineConfig(websockets=True)
NewBasePipelineConfig ==
    /\ pipeline_config = NoConfig
    /\ \E ws \in BOOLEAN : pipeline_config' = BasePipelineConfig(ws)
    /\ UNCHANGED <<policy, call, task>>

\* the caller takes the result; the instance is ready for the next call
Return ==
    /\ call # NoCall
    /\ call' = NoCall
    /\ UNCHANGED <<policy, pipeline_config, task>>

Next ==
    \/ NewExponentialBackoffWithJitter
    \/ NewDefaultExponentialBackoff
    \/ CallGetNextRedoInterval
    \/ CallShouldRedo
    \/ Return
    \/ NewBasePipelineConfig

Spec == Init /\ [][Next]_vars

----------------------------------------------------------------------------
(* Properties of a call made by one caller (checked under Spec) *)

IsGetNextRedoInterval == call.method = "get_next_redo_interval"

IsShouldRedo == call.method = "should_redo"

\* minimum <= maximum, backoff_interval > 0, 1 - jitter_down_factor > 0
ValidConfiguration(p) ==
    /\ p.minimum_interval_between_redos <= p.maximum_interval_between_redos
    /\ p.backoff_interval > 0
    /\ One - p.jitter_down_factor > 0

\* maximum < minimum, or a negative interval
Misconfigured(p) ==
    \/ p.maximum_interval_between_redos < p.minimum_interval_between_redos
    \/ p.minimum_interval_between_redos < 0
    \/ p.maximum_interval_between_redos < 0
    \/ p.backoff_interval < 0

\* v (in 1/One units) lies in [minimum, maximum]
WithinBounds(p, v) ==
    /\ p.minimum_interval_between_redos * One <= v
    /\ v <= p.maximum_interval_between_redos * One

\* C1: for a valid configuration, every redo_count >= 1 and every draw,
\* get_next_redo_interval returns a value in [minimum, maximum], except that
\* with immediate_first_redo it returns exactly 0 for redo_count 1.
C1_IntervalWithinBounds ==
    (IsGetNextRedoInterval /\ ValidConfiguration(policy)) =>
        /\ call.raised = None
        /\ IF is_immediate(policy, call.redo_count)
           THEN call.interval = 0
           ELSE WithinBounds(policy, call.interval)

\* Every call that returns on a valid configuration returns 0 (immediate first
\* redo) or a value in [minimum, maximum].
IntervalWithinBoundsWhenReturned ==
    (IsGetNextRedoInterval /\ ValidConfiguration(policy) /\ call.raised = None) =>
        IF is_immediate(policy, call.redo_count)
        THEN call.interval = 0
        ELSE WithinBounds(policy, call.interval)

\* Every redo_count from FloatMaxExp + 1 on raises OverflowError, unless the
\* call is the immediate first redo.
OverflowFromFloatMaxExp ==
    IsGetNextRedoInterval =>
        (call.raised = "OverflowError" <=>
            (call.redo_count > FloatMaxExp /\ ~is_immediate(policy, call.redo_count)))

\* C2: should_redo returns false whenever the error is present and its class
\* is not in redo_error_list, for every op and every redo_count.
C2_UnlistedErrorNotRedone ==
    (IsShouldRedo /\ call.error # None /\ TypeOf(call.error) \notin policy.redo_error_list)
        => call.redo = FALSE

\* reached: an unlisted error rejected although the op passes its filter, on a
\* policy whose redo_error_list is empty
C2_Witness ==
    /\ IsShouldRedo
    /\ call.error # None
    /\ policy.redo_error_list = {}
    /\ ~op_rejected(policy, call.op)
    /\ call.redo = FALSE

\* C3: should_redo(None, None, redo_count) returns true for every redo_count
\* and every content of the two lists, the empty lists included.
C3_SpontaneousDisconnectRedone ==
    (IsShouldRedo /\ call.op = None /\ call.error = None) => call.redo = TRUE

\* reached: should_redo(None, None, n) = True on a policy with both lists empty
C3_Witness ==
    /\ IsShouldRedo
    /\ call.op = None
    /\ call.error = None
    /\ policy.redo_op_list = {}
    /\ policy.redo_error_list = {}
    /\ call.redo = TRUE

\* C4: BasePipelineConfig() with no overrides succeeds, and its retry_policy and
\* reconnect_policy are DefaultExponentialBackoff instances whose redo_error_list
\* is retry_errors and reconnect_errors.
C4_DefaultConfigConstructs ==
    pipeline_config.state # "unloaded" =>
        /\ pipeline_config.state = "constructed"
        /\ pipeline_config.retry_policy.cls = "DefaultExponentialBackoff"
        /\ pipeline_config.retry_policy.redo_error_list = retry_errors
        /\ pipeline_config.reconnect_policy.cls = "DefaultExponentialBackoff"
        /\ pipeline_config.reconnect_policy.redo_error_list = reconnect_errors

\* C5: a misconfigured ExponentialBackoffWithJitter (maximum < minimum, or a
\* negative interval) is never constructed, so no instance returns a negative
\* interval or, the immediate first redo aside, one outside [minimum, maximum].
C5_MisconfigurationRejected ==
    /\ Constructed(policy) => ~Misconfigured(policy)
    /\ (IsGetNextRedoInterval /\ call.raised = None) =>
          /\ call.interval >= 0
          /\ is_immediate(policy, call.redo_count) \/ WithinBounds(policy, call.interval)

\* a present op, and a present error whose class is in redo_error_list
PresentOpListedError ==
    /\ IsShouldRedo
    /\ call.op # None
    /\ call.error # None
    /\ TypeOf(call.error) \in policy.redo_error_list

\* C6 as stated: for a present op and a present, listed error, should_redo
\* returns true whether or not the op's class is in redo_op_list.
C6_OpListIgnored == PresentOpListedError => call.redo = TRUE

\* C6 amended: for a present op and a present, listed error, should_redo
\* returns true exactly when the op's class is in redo_op_list.
C6_OpListFilters ==
    PresentOpListedError => (call.redo <=> TypeOf(call.op) \in policy.redo_op_list)

\* reached: a listed error refused because the op's class is not listed
C6_Witness ==
    /\ PresentOpListedError
    /\ TypeOf(call.op) \notin policy.redo_op_list
    /\ call.redo = FALSE

\* C7: for a valid configuration get_next_redo_interval never returns more
\* than maximum, and returns exactly maximum for every redo_count with
\* minimum + (2^(redo_count-1) - 1) * backoff_interval * (1 - jitter_down_factor)
\* >= maximum, whatever the draw.
C7_ClampedAtMaximum ==
    (IsGetNextRedoInterval /\ ValidConfiguration(policy)) =>
        /\ call.raised = None
        /\ call.interval <= policy.maximum_interval_between_redos * One
        /\ (policy.minimum_interval_between_redos * One
              + pow_term(call.redo_count) * policy.backoff_interval
                  * (One - policy.jitter_down_factor)
            >= policy.maximum_interval_between_redos * One)
           => call.interval = policy.maximum_interval_between_redos * One

\* Every call that returns on a valid configuration and is not the immediate
\* first redo is clamped at maximum.
ClampedAtMaximumWhenComputed ==
    (/\ IsGetNextRedoInterval
     /\ ValidConfiguration(policy)
     /\ call.raised = None
     /\ ~is_immediate(policy, call.redo_count)) =>
        /\ call.interval <= policy.maximum_interval_between_redos * One
        /\ (policy.minimum_interval_between_redos * One
              + pow_term(call.redo_count) * policy.backoff_interval
                  * (One - policy.jitter_down_factor)
            >= policy.maximum_interval_between_redos * One)
           => call.interval = policy.maximum_interval_between_redos * One

\* C8: with immediate_first_redo false, get_next_redo_interval(1) returns
\* exactly min(minimum, maximum), whatever the draw and the configuration.
C8_FirstRedoIsFloor ==
    (IsGetNextRedoInterval /\ ~policy.immediate_first_redo /\ call.redo_count = 1) =>
        /\ call.raised = None
        /\ call.interval = One * Min(policy.minimum_interval_between_redos,
                                     policy.maximum_interval_between_redos)

\* reached: get_next_redo_interval(1) with a non-zero random_jitter returning a
\* non-zero minimum
C8_Witness ==
    /\ IsGetNextRedoInterval
    /\ ~policy.immediate_first_redo
    /\ call.redo_count = 1
    /\ random_jitter(policy, call.draw) > 0
    /\ policy.minimum_interval_between_redos > 0
    /\ policy.minimum_interval_between_redos < policy.maximum_interval_between_redos
    /\ call.interval = One * policy.minimum_interval_between_redos

\* C10: should_redo matches classes exactly.  A present error or op whose
\* class is a strict subclass of a listed class, and is not itself listed, is
\* refused; a call that returns true had each present argument's own class in
\* its list.
C10_ExactClassMatch ==
    IsShouldRedo =>
        /\ (/\ call.error # None
            /\ TypeOf(call.error) \notin policy.redo_error_list
            /\ \E k \in policy.redo_error_list : IsStrictSubclass(TypeOf(call.error), k))
           => call.redo = FALSE
        /\ (/\ call.op # None
            /\ TypeOf(call.op) \notin policy.redo_op_list
            /\ \E k \in policy.redo_op_list : IsStrictSubclass(TypeOf(call.op), k))
           => call.redo = FALSE
        /\ call.redo =>
              /\ call.op = None \/ TypeOf(call.op) \in policy.redo_op_list
              /\ call.error = None \/ TypeOf(call.error) \in policy.redo_error_list

\* reached: an instance of a strict subclass of a listed error class refused,
\* the op passing its filter
C10_Witness ==
    /\ IsShouldRedo
    /\ call.error # None
    /\ TypeOf(call.error) \notin policy.redo_error_list
    /\ \E k \in policy.redo_error_list : IsStrictSubclass(TypeOf(call.error), k)
    /\ ~op_rejected(policy, call.op)
    /\ call.redo = FALSE

----------------------------------------------------------------------------
(* One policy instance shared by several tasks.  A task is preempted between *)
(* any two lines of a method, so each line that reads the instance is a step. *)

\* the instances the tasks share: the preset in the reconnect role, and a
\* policy with no immediate first redo in the retry role
TaskPolicies ==
    {DefaultExponentialBackoff(<<{"PipelineOperation"}, reconnect_errors>>),
     ExponentialBackoffWithJitter_init("ExponentialBackoffWithJitter", {}, retry_errors,
                                       FALSE, 1, 1, 2, 1, 2)}

TaskOpValues == {None, "PipelineOperation"}

TaskErrorValues == {None, "ConnectionDroppedError", "PipelineTimeoutError"}

TaskRedoCounts == {1, 2}

InitTasks ==
    /\ policy \in TaskPolicies
    /\ call = NoCall
    /\ pipeline_config = NoConfig
    /\ task = [t \in Tasks |-> IdleTask]

\* task t enters should_redo(op, error, redo_count)
TaskCallShouldRedo(t) ==
    /\ task[t].pc = "idle"
    /\ \E op \in TaskOpValues, error \in TaskErrorValues, n \in TaskRedoCounts :
          task' = [task EXCEPT ![t] = [IdleTask EXCEPT !.pc = "line66",
                                          !.method = "should_redo", !.op = op,
                                          !.error = error, !.redo_count = n]]
    /\ UNCHANGED <<policy, call, pipeline_config>>

\* lines 66-67
TaskLine66(t) ==
    /\ task[t].pc = "line66"
    /\ task' = [task EXCEPT ![t] =
                   IF op_rejected(policy, task[t].op)
                   THEN [@ EXCEPT !.pc = "done", !.redo = FALSE]
                   ELSE [@ EXCEPT !.pc = "line68"]]
    /\ UNCHANGED <<policy, call, pipeline_config>>

\* lines 68-70
TaskLine68(t) ==
    /\ task[t].pc = "line68"
    /\ task' = [task EXCEPT ![t] =
                   IF error_rejected(policy, task[t].error)
                   THEN [@ EXCEPT !.pc = "done", !.redo = FALSE]
                   ELSE [@ EXCEPT !.pc = "done", !.redo = TRUE]]
    /\ UNCHANGED <<policy, call, pipeline_config>>

\* task t enters get_next_redo_interval(redo_count)
TaskCallGetNextRedoInterval(t) ==
    /\ task[t].pc = "idle"
    /\ \E n \in TaskRedoCounts :
          task' = [task EXCEPT ![t] = [IdleTask EXCEPT !.pc = "line53",
                                          !.method = "get_next_redo_interval",
                                          !.redo_count = n]]
    /\ UNCHANGED <<policy, call, pipeline_config>>

\* lines 53-55
TaskLine53(t) ==
    /\ task[t].pc = "line53"
    /\ task' = [task EXCEPT ![t] =
                   IF is_immediate(policy, task[t].redo_count)
                   THEN [@ EXCEPT !.pc = "done", !.interval = 0]
                   ELSE [@ EXCEPT !.pc = "line56"]]
    /\ UNCHANGED <<policy, call, pipeline_config>>

\* a write of the draw into the instance: self.backoff_interval *= random.uniform(...)
TaskLine56_StoresInSelf(t) ==
    /\ task[t].pc = "line56"
    /\ \E u \in JitterDraws(policy) :
          /\ task' = [task EXCEPT ![t] = [@ EXCEPT !.pc = "line59", !.draw = u,
                                                   !.rj = random_jitter(policy, u)]]
          /\ policy' = [policy EXCEPT !.backoff_interval = random_jitter(policy, u)]
    /\ UNCHANGED <<call, pipeline_config>>

\* lines 56-58: the draw and random_jitter, a local of the call
TaskLine56(t) ==
    /\ task[t].pc = "line56"
    /\ \E u \in JitterDraws(policy) :
          task' = [task EXCEPT ![t] = [@ EXCEPT !.pc = "line59", !.draw = u,
                                                !.rj = random_jitter(policy, u)]]
    /\ UNCHANGED <<policy, call, pipeline_config>>

\* lines 59-62
TaskLine59(t) ==
    /\ task[t].pc = "line59"
    /\ LET r == clamped_interval(policy, task[t].redo_count, task[t].rj)
       IN task' = [task EXCEPT ![t] = [@ EXCEPT !.pc = "done", !.raised = r.raised,
                                                !.interval = r.value]]
    /\ UNCHANGED <<policy, call, pipeline_config>>

\* the call returns to the task
TaskReturn(t) ==
    /\ task[t].pc = "done"
    /\ task' = [task EXCEPT ![t] = IdleTask]
    /\ UNCHANGED <<policy, call, pipeline_config>>

NextTasks ==
    \E t \in Tasks :
       \/ TaskCallShouldRedo(t)
       \/ TaskLine66(t)
       \/ TaskLine68(t)
       \/ TaskCallGetNextRedoInterval(t)
       \/ TaskLine53(t)
       \/ TaskLine56(t)
       \/ TaskLine59(t)
       \/ TaskReturn(t)

SpecTasks == InitTasks /\ [][NextTasks]_vars

----------------------------------------------------------------------------
(* Properties of calls interleaved on one instance (checked under SpecTasks) *)

\* a finished call of task t returned what the method returns when run alone
\* on the instance, with the task's own arguments and its own draw
ReturnedAsAlone(t) ==
    task[t].pc = "done" =>
        IF task[t].method = "should_redo"
        THEN task[t].redo = should_redo(policy, task[t].op, task[t].error,
                                        task[t].redo_count)
        ELSE LET r == get_next_redo_interval(policy, task[t].redo_count, task[t].draw)
             IN task[t].raised = r.raised /\ task[t].interval = r.value

\* C9: no step of should_redo or get_next_redo_interval changes a field of the
\* instance, and under every interleaving each finished call has the result it
\* has when run alone (should_redo) or the value its own redo_count and draw
\* give (get_next_redo_interval).
C9_CallsLeaveInstanceUnchanged ==
    /\ [](\A t \in Tasks : ReturnedAsAlone(t))
    /\ [][policy' = policy]_vars

\* reached: one task has finished a get_next_redo_interval that drew, while
\* another task is between two lines of should_redo
C9_Witness ==
    \E t1 \in Tasks, t2 \in Tasks :
       /\ t1 # t2
       /\ task[t1].pc = "done"
       /\ task[t1].method = "get_next_redo_interval"
       /\ task[t1].draw > 0
       /\ task[t2].pc = "line68"

====
